---- MODULE Spec2Model ----
(***************************************************************************)
(* Model of the AI file organizer: organizer.py (sanitize_foldername,      *)
(* get_items_to_organize, get_item_categories, move_item, main) and the    *)
(* run controller of gui.py (Worker.run, Worker.cancel).                   *)
(*                                                                         *)
(* Strings are sequences of one-character strings, so that the sanitizer   *)
(* is computed character by character as the code computes it.  A path is  *)
(* a sequence of names relative to the directory being organized; the      *)
(* file system is a function from the paths that exist to their entries.   *)
(***************************************************************************)
EXTENDS Integers, Sequences, FiniteSets, TLC

VARIABLES
    path_str,       \* sanitizer: the argument of sanitize_foldername
    sanitized,      \* sanitizer: its return value
    sanPc,          \* sanitizer: "off" | "call" | "done"
    fs,             \* the directory tree: path -> [kind, ino]
    files_to_categorize,    \* scan result: the files list
    folders_to_categorize,  \* scan result: the folders list
    item_path_map,  \* scan result: id -> path at scan time
    batch_size,     \* batch_size argument of get_item_categories
    items_to_categorize,    \* argument of the running get_item_categories
    i,              \* loop index of get_item_categories
    all_results,    \* accumulator of get_item_categories
    oracle_batches, \* history: each batch handed to get_ai_categories_batch,
                    \* and how many records it answered
    categorized,    \* the classifications not yet handed to move_item
    outcome,        \* what the last move_item logged
    success_log,    \* history: source -> [destination, ino] of the latest
                    \* success record logged for that source path
    pc,             \* position of main / Worker.run
    exit_code,      \* exit status of the CLI process (-1 while running)
    is_cancelled,   \* Worker.is_cancelled
    processed_items_count,  \* Worker.run local
    progress,       \* last value emitted on Worker.progress (-1: none yet)
    status,         \* last message Worker.run emitted on Worker.status
    error           \* message emitted on Worker.error ("" if none)

sanVars  == <<path_str, sanitized, sanPc>>
scanVars == <<files_to_categorize, folders_to_categorize, item_path_map>>
batchVars == <<batch_size, items_to_categorize, i, all_results, oracle_batches>>
guiVars  == <<is_cancelled, processed_items_count, progress, status, error>>
runVars  == <<fs, categorized, outcome, success_log, pc, exit_code>>
vars == <<sanVars, scanVars, batchVars, guiVars, runVars>>

----------------------------------------------------------------------------
(* Bounds of the model.                                                    *)

MaxLen == 4
MaxEntries == 3
MaxOut == 2
MaxItems == 4
MaxBatch == 3

----------------------------------------------------------------------------
(* Strings.                                                                *)

LowerCase == <<"a","b","c","d","e","f","g","h","i","j","k","l","m",
               "n","o","p","q","r","s","t","u","v","w","x","y","z">>
UpperCase == <<"A","B","C","D","E","F","G","H","I","J","K","L","M",
               "N","O","P","Q","R","S","T","U","V","W","X","Y","Z">>
Digits == {"0","1","2","3","4","5","6","7","8","9"}

Range(s) == {s[k] : k \in 1..Len(s)}

\* str.upper / str.lower on one character
Upper(c) == IF \E k \in 1..26 : LowerCase[k] = c
            THEN UpperCase[CHOOSE k \in 1..26 : LowerCase[k] = c] ELSE c
Lower(c) == IF \E k \in 1..26 : UpperCase[k] = c
            THEN LowerCase[CHOOSE k \in 1..26 : UpperCase[k] = c] ELSE c

\* two characters outside ASCII, written by their code points: U+0149 is
\* LATIN SMALL LETTER N PRECEDED BY APOSTROPHE, U+02BC is MODIFIER LETTER
\* APOSTROPHE (a letter without case)
NApos == "U+0149"
ModApos == "U+02BC"

\* the title-casing str.capitalize() applies to the first character: one
\* character may become several (Unicode SpecialCasing: U+0149 -> U+02BC N)
Title(c) == IF c = NApos THEN <<ModApos, "N">> ELSE <<Upper(c)>>

\* the character class of re.sub(r'[\\/:*?"<>|]', '', part)
IllegalChars == {"\\", "/", ":", "*", "?", "\"", "<", ">", "|"}
\* \s and str.strip(): whitespace
Whitespace == {" ", "\t", "\n"}

RECURSIVE Split(_, _)
\* str.split(sep): the pieces between the separators, at least one piece
Split(s, sep) ==
    IF \A k \in 1..Len(s) : s[k] # sep THEN <<s>>
    ELSE LET k == CHOOSE k \in 1..Len(s) :
                      s[k] = sep /\ \A j \in 1..(k-1) : s[j] # sep
         IN <<SubSeq(s, 1, k-1)>> \o Split(SubSeq(s, k+1, Len(s)), sep)

RECURSIVE Join(_, _)
\* sep.join(parts)
Join(parts, sep) ==
    IF parts = <<>> THEN <<>>
    ELSE IF Len(parts) = 1 THEN parts[1]
    ELSE parts[1] \o <<sep>> \o Join(Tail(parts), sep)

\* re.sub(r'[\\/:*?"<>|]', '', part)
RemoveIllegal(part) == SelectSeq(part, LAMBDA c : c \notin IllegalChars)

RECURSIVE Strip(_)
\* str.strip()
Strip(s) ==
    IF s = <<>> THEN s
    ELSE IF s[1] \in Whitespace THEN Strip(Tail(s))
    ELSE IF s[Len(s)] \in Whitespace THEN Strip(SubSeq(s, 1, Len(s)-1))
    ELSE s

RECURSIVE CollapseWhitespace(_)
\* re.sub(r'\s+', '_', s): every maximal run of whitespace becomes one '_'
CollapseWhitespace(s) ==
    IF s = <<>> THEN s
    ELSE IF s[1] \in Whitespace
         THEN IF Len(s) > 1 /\ s[2] \in Whitespace
              THEN CollapseWhitespace(Tail(s))
              ELSE <<"_">> \o CollapseWhitespace(Tail(s))
         ELSE <<s[1]>> \o CollapseWhitespace(Tail(s))

\* str.capitalize(): first character title-cased, the rest lower-cased
Capitalize(word) ==
    IF word = <<>> THEN word
    ELSE Title(word[1]) \o [k \in 1..(Len(word)-1) |-> Lower(word[k+1])]

Misc == <<"M", "i", "s", "c">>

\* the body of the loop of sanitize_foldername, for one part
SanitizePart(part0) ==
    LET part1 == RemoveIllegal(part0)
        part2 == CollapseWhitespace(Strip(part1))
        words == Split(part2, "_")
        part3 == Join([k \in 1..Len(words) |-> Capitalize(words[k])], "_")
    IN IF part3 # <<>> THEN part3 ELSE Misc

\* sanitize_foldername(path_str)
sanitize_foldername(p) ==
    LET parts == Split(p, "/")
    IN Join([k \in 1..Len(parts) |-> SanitizePart(parts[k])], "/")

----------------------------------------------------------------------------
(* Paths and the file system.                                              *)

Root == <<>>
Basename(p) == p[Len(p)]
Parent(p) == SubSeq(p, 1, Len(p) - 1)
Prefixes(p) == {SubSeq(p, 1, k) : k \in 0..Len(p)}

\* PurePath.is_relative_to(other): other is p or an ancestor of p
IsRelativeTo(p, other) ==
    Len(other) <= Len(p) /\ SubSeq(p, 1, Len(other)) = other

Exists(f, p) == p \in DOMAIN f
IsDir(f, p)  == p \in DOMAIN f /\ f[p].kind = "dir"
IsFile(f, p) == p \in DOMAIN f /\ f[p].kind = "file"

\* the entries at or below p
Subtree(f, p) == {q \in DOMAIN f : IsRelativeTo(q, p)}

\* Path(source_dir) / category: the parts of a relative path string
PathParts(str) ==
    SelectSeq(Split(str, "/"), LAMBDA part : part # <<>> /\ part # <<".">>)

\* Path.mkdir(parents=True, exist_ok=True) succeeds unless a non-directory
\* is in the way
MkdirOk(f, d) == \A q \in Prefixes(d) : Exists(f, q) => IsDir(f, q)

\* the tree after a successful mkdir: the missing directories are created
\* (ino 0 marks an entry that was not there at scan time)
Mkdirs(f, d) ==
    [q \in DOMAIN f \cup Prefixes(d) |->
        IF q \in DOMAIN f THEN f[q] ELSE [kind |-> "dir", ino |-> 0]]

\* os.rename(src, dst) of an existing src: src and all below it now live at
\* dst, replacing what was there
Rename(f, src, dst) ==
    LET moved == Subtree(f, src)
        kept  == (DOMAIN f \ moved) \ {dst}
        At(q) == dst \o SubSeq(q, Len(src) + 1, Len(q))
    IN [q \in kept \cup {At(m) : m \in moved} |->
           IF \E m \in moved : At(m) = q
           THEN f[CHOOSE m \in moved : At(m) = q]
           ELSE f[q]]

\* os.rename, with shutil.move's copy-and-delete fallback, succeeds when
\* src exists and real_dst is free, or is a non-directory that a
\* non-directory src replaces
RenameOk(f, src, real_dst) ==
    /\ Exists(f, src)
    /\ ~(IsDir(f, src) /\ IsRelativeTo(real_dst, src) /\ real_dst # src)
    /\ Exists(f, real_dst) /\ real_dst # src => ~IsDir(f, src) /\ ~IsDir(f, real_dst)

\* shutil.move(src, dst): [ok, fs, real_dst].  An existing directory dst
\* receives src inside it, unless that name is taken there.
ShutilMove(f, src, dst) ==
    LET into     == IsDir(f, dst) /\ src # dst
        real_dst == IF into THEN dst \o <<Basename(src)>> ELSE dst
        ok       == /\ ~(into /\ Exists(f, real_dst))
                    /\ RenameOk(f, src, real_dst)
    IN [ok |-> ok,
        fs |-> IF ok /\ real_dst # src THEN Rename(f, src, real_dst) ELSE f,
        real_dst |-> real_dst]

----------------------------------------------------------------------------
(* move_item.                                                              *)

NoOutcome == [status |-> "none", reason |-> "", source |-> <<>>,
              destination |-> <<>>, category |-> <<>>]

\* dest_dir = source_path / category
DestDir(category) == PathParts(category)
\* new_item_path = dest_dir / item_path.name
NewItemPath(category, item_path) == DestDir(category) \o <<Basename(item_path)>>

\* the check "item_path.is_dir() and new_item_path.is_relative_to(item_path)"
IntoItself(f, item_path, new_item_path) ==
    IsDir(f, item_path) /\ IsRelativeTo(new_item_path, item_path)

\* the tree on which the guard and the move act: dest_dir.mkdir(...) has
\* run before them
AfterMkdir(f, dest_dir) == Mkdirs(f, dest_dir)

\* (mutant) the destination directory is made before the id is looked up
UnknownIdAfterMkdir(f, category) ==
    [fs |-> IF MkdirOk(f, DestDir(category))
            THEN Mkdirs(f, DestDir(category)) ELSE f,
     outcome |-> [status |-> "skipped", reason |-> "unknown id",
                  source |-> <<>>, destination |-> <<>>,
                  category |-> category]]

\* lines 194-198: no path is recorded for the id; a warning is logged and
\* move_item returns
UnknownId(f, category) ==
    [fs |-> f,
     outcome |-> [status |-> "skipped", reason |-> "unknown id",
                  source |-> <<>>, destination |-> <<>>,
                  category |-> category]]

\* move_item(source_dir, categorized_item, item_path_map): the tree it
\* leaves and what it logs
move_item(f, categorized_item, path_map) ==
    LET item_id  == categorized_item.id
        category == sanitize_foldername(categorized_item.category)
    IN IF item_id \notin DOMAIN path_map
       THEN UnknownId(f, category)
       ELSE
       LET item_path     == path_map[item_id]
           dest_dir      == DestDir(category)
           new_item_path == NewItemPath(category, item_path)
           Out(st, why)  == [status |-> st, reason |-> why,
                             source |-> item_path,
                             destination |-> new_item_path,
                             category |-> category]
       IN IF ~MkdirOk(f, dest_dir)
          THEN [fs |-> f, outcome |-> Out("failed", "mkdir")]
          ELSE
          LET g == AfterMkdir(f, dest_dir)
          IN IF IntoItself(g, item_path, new_item_path)
             THEN [fs |-> g, outcome |-> Out("failed", "into itself")]
             ELSE
             LET mv == ShutilMove(g, item_path, new_item_path)
             IN IF mv.ok
                THEN [fs |-> mv.fs, outcome |-> Out("success", "")]
                ELSE [fs |-> g, outcome |-> Out("failed", "move")]

\* lines 214-219: what the log holds after the call, a success record
\* being kept with the ino of the entry that was moved
Logged(slog, f, out) ==
    IF out.status = "success"
    THEN [s \in DOMAIN slog \cup {out.source} |->
             IF s = out.source
             THEN [destination |-> out.destination, ino |-> f[out.source].ino]
             ELSE slog[s]]
    ELSE slog

----------------------------------------------------------------------------
(* The directory trees a run starts from.                                  *)

nA == <<"A">>
nS == <<"S">>
nf == <<"f">>
ng == <<"g">>
nh == <<".", "h">>
nl == <<"l">>

\* the entries a tree may hold; an entry's ino is its index here.  "other"
\* is an entry that is neither a regular file nor a directory (a dangling
\* symbolic link, a FIFO).
Universe == <<
    [path |-> <<nA>>,     kind |-> "dir"],
    [path |-> <<nA, nf>>, kind |-> "file"],
    [path |-> <<nf>>,     kind |-> "file"],
    [path |-> <<nh>>,     kind |-> "file"],
    [path |-> <<nl>>,     kind |-> "other"],
    [path |-> <<nA, nS>>, kind |-> "dir"],
    [path |-> <<nA, nh>>, kind |-> "dir"],
    [path |-> <<ng>>,     kind |-> "file"] >>

RootEntry == [kind |-> "dir", ino |-> 0]

TreeOf(picked) ==
    [q \in {Root} \cup {Universe[k].path : k \in picked} |->
        IF q = Root THEN RootEntry
        ELSE LET k == CHOOSE k \in picked : Universe[k].path = q
             IN [kind |-> Universe[k].kind, ino |-> k]]

\* the trees made of the entries numbered in `among`: at most MaxEntries
\* entries, each entry's parent directory being there
TreesAmong(among) ==
    {TreeOf(picked) : picked \in
        {S \in SUBSET among :
            /\ Cardinality(S) <= MaxEntries
            /\ \A k \in S : Len(Universe[k].path) > 1 =>
                  \E j \in S : Universe[j].path = Parent(Universe[k].path)}}

\* the trees the scanner is run on: hidden entries and special files too
ScanTrees == TreesAmong(1..Len(Universe))

\* the trees the CLI is started on: a folder, a file in it, and a file of
\* the same name beside it
Trees == TreesAmong({1, 2, 3})

\* the trees the worker is started on: a folder and a file beside it
WorkerTrees == TreesAmong({1, 3})

\* a root argument that is not an existing directory: nothing is there, or
\* a regular file is
InvalidRoots ==
    { [q \in {} |-> RootEntry], [q \in {Root} |-> [kind |-> "file", ino |-> 0]] }

----------------------------------------------------------------------------
(* get_items_to_organize.                                                  *)

\* item_path.name.startswith('.')
IsHidden(p) == Basename(p)[1] = "."

\* what rglob('*') yields and the loop does not skip
Listed(f) == {q \in DOMAIN f : q # Root /\ ~IsHidden(q)}

\* the orders in which rglob('*') may yield them: a directory's entries
\* are listed after the directory itself
Discoveries(f) ==
    LET n == Cardinality(Listed(f))
    IN {o \in [1..n -> Listed(f)] :
          /\ \A a, b \in 1..n : a # b => o[a] # o[b]
          /\ \A a, b \in 1..n : o[b] = Parent(o[a]) => b < a}

\* item_info of the entry discovered as number id
ItemInfo(f, id, p) ==
    [id |-> id, name |-> Basename(p),
     type |-> IF IsFile(f, p) THEN "file"
              ELSE IF IsDir(f, p) THEN "folder" ELSE "none"]

\* the items found in discovery order o
Found(f, o) == [k \in 1..Len(o) |-> ItemInfo(f, k - 1, o[k])]

\* files_to_categorize: appended to when item_path.is_file()
ScanFiles(f, o) == SelectSeq(Found(f, o), LAMBDA it : it.type = "file")
\* folders_to_categorize: appended to when item_path.is_dir()
ScanFolders(f, o) == SelectSeq(Found(f, o), LAMBDA it : it.type = "folder")
\* item_path_map[item_id] = item_path, for every entry that was not skipped
ScanMap(f, o) == [id \in 0..(Len(o) - 1) |-> o[id + 1]]

\* "if not source_path.is_dir(): raise ValueError"
ValidRoot(f) == IsDir(f, Root)

----------------------------------------------------------------------------
(* The classification oracle (get_ai_categories_batch): any list of        *)
(* records, or the empty list when the call fails (lines 115-119).         *)

Min(a, b) == IF a <= b THEN a ELSE b

\* category strings the oracle answers with, as it writes them
Categories == { <<"a", "/", "s">>, <<"d">> }

SeqsUpTo(S, n) == UNION {[1..k -> S] : k \in 0..n}

\* the answers to one request: ids of the scan, and one id it never issued
OracleOutputs ==
    SeqsUpTo([id : 0..Cardinality(DOMAIN item_path_map), category : Categories],
             MaxOut)

\* the answers that name only items of the batch
BatchOracleOutputs(batch) ==
    SeqsUpTo({[id |-> batch[k].id, category |-> <<"d">>] : k \in 1..Len(batch)},
             MaxOut)

----------------------------------------------------------------------------
(* Initial states.                                                         *)

DefaultBatchSize == 64

SanIdle == path_str = <<>> /\ sanitized = <<>> /\ sanPc = "off"
ScanIdle ==
    /\ files_to_categorize = <<>>
    /\ folders_to_categorize = <<>>
    /\ item_path_map = <<>>
BatchIdle ==
    /\ items_to_categorize = <<>>
    /\ i = 0
    /\ all_results = <<>>
    /\ oracle_batches = <<>>
GuiIdle ==
    /\ is_cancelled = FALSE
    /\ processed_items_count = 0
    /\ progress = -1
    /\ status = ""
    /\ error = ""
RunIdle ==
    /\ categorized = <<>>
    /\ outcome = NoOutcome
    /\ success_log = <<>>
    /\ exit_code = -1

\* the CLI started on a directory tree, or on a root that is no directory
Init ==
    /\ SanIdle /\ ScanIdle /\ BatchIdle /\ GuiIdle /\ RunIdle
    /\ fs \in Trees \cup InvalidRoots
    /\ batch_size = DefaultBatchSize
    /\ pc = "start"

----------------------------------------------------------------------------
(* get_item_categories: the loop over the batches.                         *)

\* (mutant) the slice starts one item late
BatchStartsLate ==
    SubSeq(items_to_categorize, i + 2,
           Min(i + batch_size, Len(items_to_categorize)))

\* batch = items_to_categorize[i:i + batch_size]
Batch ==
    SubSeq(items_to_categorize, i + 1,
           Min(i + batch_size, Len(items_to_categorize)))

\* one iteration up to the progress callback: the oracle is asked about the
\* batch and its answer is appended
BatchIteration(results) ==
    /\ i < Len(items_to_categorize)
    /\ oracle_batches' = Append(oracle_batches,
                                [batch |-> Batch, answered |-> Len(results)])
    /\ all_results' = all_results \o results
    /\ i' = i + batch_size
    /\ UNCHANGED <<batch_size, items_to_categorize>>

\* the iteration in which the progress callback raises: the oracle was
\* asked, and the exception ends the call
BatchInterrupted ==
    /\ i < Len(items_to_categorize)
    /\ \E n \in 0..MaxOut :
          oracle_batches' = Append(oracle_batches,
                                   [batch |-> Batch, answered |-> n])
    /\ all_results' = <<>>
    /\ i' = 0
    /\ UNCHANGED <<batch_size, items_to_categorize>>

\* the call: locals are fresh
EnterCategorize(items) ==
    /\ items_to_categorize' = items
    /\ i' = 0
    /\ all_results' = <<>>
    /\ oracle_batches' = <<>>
    /\ UNCHANGED batch_size

\* the loop is over
LoopDone == i >= Len(items_to_categorize)

\* the function is left, by return or by an exception of the callback: its
\* locals are gone (the request and the batches it sent stay as history)
LeaveCategorize ==
    /\ i' = 0
    /\ all_results' = <<>>
    /\ UNCHANGED <<batch_size, items_to_categorize, oracle_batches>>

----------------------------------------------------------------------------
(* main.                                                                   *)

\* lines 236-237 and 251-252: the scan; a ValueError is logged and main
\* returns
MainScan ==
    /\ pc = "start"
    /\ IF ~ValidRoot(fs)
       THEN /\ pc' = "done"
            /\ exit_code' = 0
            /\ UNCHANGED scanVars
       ELSE /\ \E o \in Discoveries(fs) :
                 /\ files_to_categorize' = ScanFiles(fs, o)
                 /\ folders_to_categorize' = ScanFolders(fs, o)
                 /\ item_path_map' = ScanMap(fs, o)
            /\ pc' = "files"
            /\ UNCHANGED exit_code
    /\ UNCHANGED <<sanVars, batchVars, guiVars, fs, categorized, outcome, success_log>>

\* line 239-240: "if files_to_categorize:" and the call
MainFiles ==
    /\ pc = "files"
    /\ IF files_to_categorize # <<>>
       THEN EnterCategorize(files_to_categorize) /\ pc' = "classify_files"
       ELSE UNCHANGED batchVars /\ pc' = "folders"
    /\ UNCHANGED <<sanVars, scanVars, guiVars, fs, categorized, outcome, success_log, exit_code>>

\* line 245-246: "if folders_to_categorize:" and the call
MainFolders ==
    /\ pc = "folders"
    /\ IF folders_to_categorize # <<>>
       THEN EnterCategorize(folders_to_categorize) /\ pc' = "classify_folders"
       ELSE UNCHANGED batchVars /\ pc' = "exit"
    /\ UNCHANGED <<sanVars, scanVars, guiVars, fs, categorized, outcome, success_log, exit_code>>

\* lines 170-177 with progress_callback = None
ClassifyBatch ==
    /\ pc \in {"classify_files", "classify_folders"}
    /\ \E results \in OracleOutputs : BatchIteration(results)
    /\ UNCHANGED <<sanVars, scanVars, guiVars, runVars>>

\* lines 179-183, and the caller's assignment of the result
ClassifyReturn ==
    /\ pc \in {"classify_files", "classify_folders"}
    /\ LoopDone
    /\ categorized' = all_results
    /\ LeaveCategorize
    /\ pc' = IF pc = "classify_files" THEN "move_files" ELSE "move_folders"
    /\ UNCHANGED <<sanVars, scanVars, guiVars, fs, outcome, success_log, exit_code>>

\* lines 242-243 and 248-249: one iteration of a move loop
MoveNext ==
    /\ pc \in {"move_files", "move_folders"}
    /\ categorized # <<>>
    /\ LET r == move_item(fs, Head(categorized), item_path_map)
       IN /\ fs' = r.fs
          /\ outcome' = r.outcome
          /\ success_log' = Logged(success_log, fs, r.outcome)
    /\ categorized' = Tail(categorized)
    /\ UNCHANGED <<sanVars, scanVars, batchVars, guiVars, pc, exit_code>>

\* a move loop is over
MoveEnd ==
    /\ pc \in {"move_files", "move_folders"}
    /\ categorized = <<>>
    /\ pc' = IF pc = "move_files" THEN "folders" ELSE "exit"
    /\ UNCHANGED <<sanVars, scanVars, batchVars, guiVars, fs, categorized, outcome, success_log, exit_code>>

\* main returns and the interpreter exits
MainExit ==
    /\ pc = "exit"
    /\ pc' = "done"
    /\ exit_code' = 0
    /\ UNCHANGED <<sanVars, scanVars, batchVars, guiVars, fs, categorized, outcome, success_log>>

Next ==
    \/ MainScan
    \/ MainFiles
    \/ ClassifyBatch
    \/ ClassifyReturn
    \/ MoveNext
    \/ MoveEnd
    \/ MainFolders
    \/ MainExit

Spec == Init /\ [][Next]_vars

----------------------------------------------------------------------------
(* Worker.run and Worker.cancel (gui.py).  The calls pass debug_skip_api   *)
(* on to the organizer's functions; they are modelled as the functions of  *)
(* organizer.py, which do not read it.  The worker reads is_cancelled only *)
(* at the places modelled here; each action reads it at most once.         *)

GuiBatchSize == 64

InitGui ==
    /\ SanIdle /\ ScanIdle /\ BatchIdle /\ GuiIdle /\ RunIdle
    /\ fs \in WorkerTrees \cup InvalidRoots
    /\ batch_size = GuiBatchSize
    /\ pc = "w_start"

\* total_items_to_process (line 45)
total_items_to_process ==
    Len(files_to_categorize) + Len(folders_to_categorize)

\* int((processed_items_count + (processed / total)) / total_items_to_process * 100)
CallbackProgress(count, processed, total) ==
    ((count * total + processed) * 100) \div (total * total_items_to_process)

\* int((processed_items_count / total_items_to_process) * 100)
MoveProgress(count) == (count * 100) \div total_items_to_process

\* Worker.cancel, called from the window's thread while the run goes on
Cancel ==
    /\ pc \notin {"w_finished"}
    /\ ~is_cancelled
    /\ is_cancelled' = TRUE
    /\ UNCHANGED <<sanVars, scanVars, batchVars, runVars,
                   processed_items_count, progress, status, error>>

\* lines 37-38, 119-122: the scan; its ValueError goes to the error signal
WorkerScan ==
    /\ pc = "w_start"
    /\ IF ~ValidRoot(fs)
       THEN /\ error' = "not a valid directory"
            /\ status' = "Scanning directory..."
            /\ pc' = "w_finished"
            /\ UNCHANGED scanVars
       ELSE /\ \E o \in Discoveries(fs) :
                 /\ files_to_categorize' = ScanFiles(fs, o)
                 /\ folders_to_categorize' = ScanFolders(fs, o)
                 /\ item_path_map' = ScanMap(fs, o)
            /\ status' = "Scanning directory..."
            /\ pc' = "w_after_scan"
            /\ UNCHANGED error
    /\ UNCHANGED <<sanVars, batchVars, fs, categorized, outcome, success_log, exit_code,
                   is_cancelled, processed_items_count, progress>>

\* lines 40-53
WorkerAfterScan ==
    /\ pc = "w_after_scan"
    /\ IF is_cancelled
       THEN status' = "Cancelled." /\ pc' = "w_finished"
       ELSE IF total_items_to_process = 0
       THEN status' = "No items to organize." /\ pc' = "w_finished"
       ELSE status' = "Found items to process." /\ pc' = "w_files"
    /\ processed_items_count' = 0
    /\ UNCHANGED <<sanVars, scanVars, batchVars, fs, categorized, outcome, success_log,
                   exit_code, is_cancelled, progress, error>>

\* lines 55-64: "if files_to_categorize:" and the call
WorkerFiles ==
    /\ pc = "w_files"
    /\ IF files_to_categorize # <<>>
       THEN /\ EnterCategorize(files_to_categorize)
            /\ status' = "Categorizing files with AI..."
            /\ pc' = "w_classify_files"
       ELSE UNCHANGED <<batchVars, status>> /\ pc' = "w_files_done"
    /\ UNCHANGED <<sanVars, scanVars, fs, categorized, outcome, success_log, exit_code,
                   is_cancelled, processed_items_count, progress, error>>

\* organizer.py lines 170-177 with the callback of gui.py lines 58-62 or
\* 90-94: it raises when the run is cancelled, and the exception leaves
\* get_item_categories and reaches "except Exception" at line 119
WorkerBatch ==
    /\ pc \in {"w_classify_files", "w_classify_folders"}
    /\ IF is_cancelled
       THEN /\ BatchInterrupted
            /\ error' = "Organization cancelled."
            /\ pc' = "w_finished"
            /\ UNCHANGED progress
       ELSE /\ \E results \in OracleOutputs : BatchIteration(results)
            /\ progress' = CallbackProgress(processed_items_count,
                                            i + Len(Batch),
                                            Len(items_to_categorize))
            /\ UNCHANGED <<error, pc>>
    /\ UNCHANGED <<sanVars, scanVars, fs, categorized, outcome, success_log, exit_code,
                   is_cancelled, processed_items_count, status>>

\* organizer.py lines 179-183, then gui.py lines 66-73 or 98-105
WorkerClassifyReturn ==
    /\ pc \in {"w_classify_files", "w_classify_folders"}
    /\ LoopDone
    /\ IF is_cancelled
       THEN /\ status' = "Cancelled."
            /\ pc' = "w_finished"
            /\ categorized' = <<>>
       ELSE IF all_results # <<>>
       THEN /\ status' = IF pc = "w_classify_files"
                         THEN "Moving files..." ELSE "Moving folders..."
            /\ pc' = IF pc = "w_classify_files"
                     THEN "w_move_files" ELSE "w_move_folders"
            /\ categorized' = all_results
       ELSE /\ pc' = IF pc = "w_classify_files"
                     THEN "w_files_done" ELSE "w_folders_done"
            /\ categorized' = <<>>
            /\ UNCHANGED status
    /\ LeaveCategorize
    /\ UNCHANGED <<sanVars, scanVars, fs, outcome, success_log, exit_code,
                   is_cancelled, processed_items_count, progress, error>>

\* (mutant) the head of a move loop without "if self.is_cancelled: break"
WorkerMoveCheckNoBreak ==
    /\ pc \in {"w_move_files", "w_move_folders"}
    /\ IF categorized = <<>>
       THEN /\ pc' = IF pc = "w_move_files"
                     THEN "w_files_done" ELSE "w_folders_done"
            /\ categorized' = <<>>
       ELSE /\ pc' = IF pc = "w_move_files"
                     THEN "w_moving_files" ELSE "w_moving_folders"
            /\ UNCHANGED categorized
    /\ UNCHANGED <<sanVars, scanVars, batchVars, guiVars, fs, outcome, success_log, exit_code>>

\* lines 74-76 or 106-108: the head of a move loop.  Past it, the move of
\* the next classification has started.
WorkerMoveCheck ==
    /\ pc \in {"w_move_files", "w_move_folders"}
    /\ IF categorized = <<>> \/ is_cancelled
       THEN /\ pc' = IF pc = "w_move_files"
                     THEN "w_files_done" ELSE "w_folders_done"
            /\ categorized' = <<>>
       ELSE /\ pc' = IF pc = "w_move_files"
                     THEN "w_moving_files" ELSE "w_moving_folders"
            /\ UNCHANGED categorized
    /\ UNCHANGED <<sanVars, scanVars, batchVars, guiVars, fs, outcome, success_log, exit_code>>

\* lines 77-80 or 109-112: the body of a move loop
WorkerMove ==
    /\ pc \in {"w_moving_files", "w_moving_folders"}
    /\ LET r == move_item(fs, Head(categorized), item_path_map)
       IN /\ fs' = r.fs
          /\ outcome' = r.outcome
          /\ success_log' = Logged(success_log, fs, r.outcome)
    /\ categorized' = Tail(categorized)
    /\ processed_items_count' = processed_items_count + 1
    /\ progress' = MoveProgress(processed_items_count + 1)
    /\ pc' = IF pc = "w_moving_files" THEN "w_move_files" ELSE "w_move_folders"
    /\ UNCHANGED <<sanVars, scanVars, batchVars, exit_code,
                   is_cancelled, status, error>>

\* lines 82-96: after the files, the folders
WorkerFolders ==
    /\ pc = "w_files_done"
    /\ IF is_cancelled
       THEN /\ status' = "Cancelled."
            /\ pc' = "w_finished"
            /\ UNCHANGED batchVars
       ELSE IF folders_to_categorize # <<>>
       THEN /\ EnterCategorize(folders_to_categorize)
            /\ status' = "Categorizing folders with AI..."
            /\ pc' = "w_classify_folders"
       ELSE UNCHANGED <<batchVars, status>> /\ pc' = "w_folders_done"
    /\ UNCHANGED <<sanVars, scanVars, fs, categorized, outcome, success_log, exit_code,
                   is_cancelled, processed_items_count, progress, error>>

\* lines 114-118, 122
WorkerEnd ==
    /\ pc = "w_folders_done"
    /\ IF is_cancelled
       THEN status' = "Organization cancelled." /\ UNCHANGED progress
       ELSE status' = "Organization complete." /\ progress' = 100
    /\ pc' = "w_finished"
    /\ UNCHANGED <<sanVars, scanVars, batchVars, fs, categorized, outcome, success_log,
                   exit_code, is_cancelled, processed_items_count, error>>

NextGui ==
    \/ Cancel
    \/ WorkerScan
    \/ WorkerAfterScan
    \/ WorkerFiles
    \/ WorkerBatch
    \/ WorkerClassifyReturn
    \/ WorkerMoveCheck
    \/ WorkerMove
    \/ WorkerFolders
    \/ WorkerEnd

SpecGui == InitGui /\ [][NextGui]_vars

----------------------------------------------------------------------------
(* The scanner alone, on every tree.                                       *)

InitScan ==
    /\ SanIdle /\ ScanIdle /\ BatchIdle /\ GuiIdle /\ RunIdle
    /\ fs \in ScanTrees \cup InvalidRoots
    /\ batch_size = DefaultBatchSize
    /\ pc = "start"

NextScan == MainScan

SpecScan == InitScan /\ [][NextScan]_vars

----------------------------------------------------------------------------
(* The CLI on trees with a folder inside a folder.                         *)

\* a folder, a folder inside it, and a file beside them
NestedTrees == TreesAmong({1, 3, 6})

InitNested ==
    /\ SanIdle /\ ScanIdle /\ BatchIdle /\ GuiIdle /\ RunIdle
    /\ fs \in NestedTrees
    /\ batch_size = DefaultBatchSize
    /\ pc = "start"

SpecNested == InitNested /\ [][Next]_vars

----------------------------------------------------------------------------
(* The sanitizer alone, on every string of at most MaxLen characters.      *)

Alphabet == {"a", "B", "1", "_", " ", "/", ":", ".", NApos}

Strings == SeqsUpTo(Alphabet, MaxLen)

InitSan ==
    /\ path_str \in Strings
    /\ sanitized = <<>>
    /\ sanPc = "call"
    /\ ScanIdle /\ BatchIdle /\ GuiIdle /\ RunIdle
    /\ fs = TreeOf({})
    /\ batch_size = DefaultBatchSize
    /\ pc = "off"

\* a call of sanitize_foldername
Sanitize ==
    /\ sanPc = "call"
    /\ sanitized' = sanitize_foldername(path_str)
    /\ sanPc' = "done"
    /\ UNCHANGED <<path_str, scanVars, batchVars, guiVars, runVars>>

NextSan == Sanitize

SpecSan == InitSan /\ [][NextSan]_vars

----------------------------------------------------------------------------
(* The batcher alone: get_item_categories(items, batch_size=B) without a   *)
(* progress callback, on lists of up to MaxItems items.                    *)

ItemsOfLength(n) == [k \in 1..n |-> [id |-> k - 1, name |-> nf, type |-> "file"]]

InitBatch ==
    /\ SanIdle /\ ScanIdle /\ GuiIdle /\ RunIdle
    /\ fs = TreeOf({})
    /\ \E n \in 0..MaxItems : items_to_categorize = ItemsOfLength(n)
    /\ batch_size \in 1..MaxBatch
    /\ i = 0
    /\ all_results = <<>>
    /\ oracle_batches = <<>>
    /\ pc = "call"

\* lines 162-168: nothing to do for an empty list
CategorizeCall ==
    /\ pc = "call"
    /\ IF items_to_categorize = <<>>
       THEN pc' = "returned" /\ categorized' = <<>>
       ELSE pc' = "loop" /\ UNCHANGED categorized
    /\ UNCHANGED <<sanVars, scanVars, batchVars, guiVars, fs, outcome, success_log, exit_code>>

\* lines 170-177 with progress_callback = None
CategorizeBatch ==
    /\ pc = "loop"
    /\ \E results \in BatchOracleOutputs(Batch) : BatchIteration(results)
    /\ UNCHANGED <<sanVars, scanVars, guiVars, runVars>>

\* lines 179-183
CategorizeReturn ==
    /\ pc = "loop"
    /\ LoopDone
    /\ categorized' = all_results
    /\ LeaveCategorize
    /\ pc' = "returned"
    /\ UNCHANGED <<sanVars, scanVars, guiVars, fs, outcome, success_log, exit_code>>

NextBatch == CategorizeCall \/ CategorizeBatch \/ CategorizeReturn

SpecBatch == InitBatch /\ [][NextBatch]_vars

----------------------------------------------------------------------------
(* Properties.                                                             *)

\* the classification a move loop hands to move_item next
NextItem == Head(categorized)

\* a step of a move loop of main is about to run move_item
AtMove == pc \in {"move_files", "move_folders"} /\ categorized # <<>>

\* the recorded path of the next classification, when it has one
KnownItem == AtMove /\ NextItem.id \in DOMAIN item_path_map
NextSource == item_path_map[NextItem.id]
NextCategory == sanitize_foldername(NextItem.category)
NextDestination == NewItemPath(NextCategory, NextSource)

\* f and g hold the same entries at and below p
SameBelow(f, g, p) ==
    /\ Subtree(f, p) = Subtree(g, p)
    /\ \A q \in Subtree(f, p) : f[q] = g[q]

\* C1: when the item is a directory and its destination is the directory
\* itself or lies inside it, move_item reports a failure and the directory
\* holds after the call exactly what it held before.
C1_SelfContainmentLeavesSourceUntouched ==
    [][ ( /\ KnownItem
          /\ IsDir(fs, NextSource)
          /\ IsRelativeTo(NextDestination, NextSource) )
        => /\ outcome'.status = "failed"
           /\ SameBelow(fs, fs', NextSource) ]_vars

\* C2: when move_item reaches the move and an entry other than the item
\* itself is already at the destination path, it reports a failure and the
\* tree is left as it was: nothing is moved, nothing is replaced.
C2_CollisionFailsAndKeepsBoth ==
    [][ ( /\ KnownItem
          /\ MkdirOk(fs, DestDir(NextCategory))
          /\ ~IntoItself(fs, NextSource, NextDestination)
          /\ Exists(fs, NextSource)
          /\ Exists(fs, NextDestination)
          /\ NextDestination # NextSource )
        => /\ outcome'.status = "failed"
           /\ fs' = fs ]_vars

\* the worker is past the head of a move loop: a move has started
Moving == pc \in {"w_moving_files", "w_moving_folders"}

Checkpoints ==
    {"w_after_scan", "w_classify_files", "w_classify_folders",
     "w_move_files", "w_move_folders", "w_files_done", "w_folders_done"}

CancelledMessages == {"Cancelled.", "Organization cancelled."}

\* C4: a step in which the worker finds is_cancelled set at a checkpoint
\* sends no error report and leads to no further oracle batch, and if it
\* ends the run the last status is a cancelled one.
C4_CancelEndsCancelled ==
    [][ (is_cancelled /\ pc \in Checkpoints /\ pc' # pc)
        => /\ error' = ""
           /\ pc' \notin {"w_classify_files", "w_classify_folders"}
           /\ pc' = "w_finished" => status' \in CancelledMessages ]_vars

\* C5: a classification whose id has no recorded path is skipped as an
\* unknown id; the tree, the map and the classifications that follow it
\* are what they were, and the loop goes on.
C5_DanglingIsSkipped ==
    [][ (AtMove /\ NextItem.id \notin DOMAIN item_path_map)
        => /\ outcome'.status = "skipped"
           /\ outcome'.reason = "unknown id"
           /\ fs' = fs
           /\ item_path_map' = item_path_map
           /\ categorized' = Tail(categorized)
           /\ pc' = pc ]_vars

\* C5 witness: an unknown id was just skipped and a classification of a
\* scanned item follows it in the same loop
C5_Witness ==
    /\ pc = "move_files"
    /\ outcome.status = "skipped"
    /\ categorized # <<>>
    /\ NextItem.id \in DOMAIN item_path_map

\* C6: with a root that is no directory the process ends with a non-zero
\* status, having asked the oracle nothing and moved nothing; with a valid
\* root it ends with status zero.
C6_InvalidRootExitsNonZero ==
    pc = "done" =>
        IF ValidRoot(fs)
        THEN exit_code = 0
        ELSE exit_code # 0 /\ oracle_batches = <<>> /\ outcome = NoOutcome

Ceil(a, b) == (a + b - 1) \div b

RECURSIVE Concat(_)
Concat(seqs) == IF seqs = <<>> THEN <<>> ELSE Head(seqs) \o Concat(Tail(seqs))

RECURSIVE Sum(_)
Sum(ns) == IF ns = <<>> THEN 0 ELSE Head(ns) + Sum(Tail(ns))

\* C7: when get_item_categories has returned, the oracle was asked
\* ceil(L/B) times, batch after batch the requests are the items in input
\* order, none empty and none longer than B, and the result holds as many
\* records as were answered: none if every answer was empty.
C7_BatcherInvocations ==
    pc = "returned" =>
        LET L == Len(items_to_categorize)
            n == Len(oracle_batches)
        IN /\ n = Ceil(L, batch_size)
           /\ Concat([k \in 1..n |-> oracle_batches[k].batch]) = items_to_categorize
           /\ \A k \in 1..n : /\ Len(oracle_batches[k].batch) >= 1
                              /\ Len(oracle_batches[k].batch) <= batch_size
           /\ Len(categorized) = Sum([k \in 1..n |-> oracle_batches[k].answered])
           /\ (\A k \in 1..n : oracle_batches[k].answered = 0) => categorized = <<>>

\* C7 witness: four items in batches of three, the last batch shorter, and
\* every answer empty
C7_Witness ==
    /\ pc = "returned"
    /\ Len(items_to_categorize) = 4
    /\ batch_size = 3
    /\ Len(oracle_batches) = 2
    /\ \A k \in 1..2 : oracle_batches[k].answered = 0
    /\ categorized = <<>>

\* C8: after a scan of a tree with N entries whose names do not start with
\* '.', the two lists hold N items together, the map has N entries, and
\* the ids are 0..N-1, each used once and each with its map entry.
C8_ScannerCatalog ==
    pc = "files" =>
        LET N     == Cardinality(Listed(fs))
            items == files_to_categorize \o folders_to_categorize
        IN /\ Len(items) = N
           /\ DOMAIN item_path_map = 0..(N - 1)
           /\ {items[k].id : k \in 1..Len(items)} = 0..(N - 1)
           /\ \A a, b \in 1..Len(items) : items[a].id = items[b].id => a = b

\* C9: every value sent on the progress signal lies in 0..100 and is not
\* below the value sent before it.
C9_ProgressMonotonic ==
    [][ progress' # progress =>
          progress' \in 0..100 /\ progress' >= progress ]_vars

WordChars == Range(LowerCase) \cup Range(UpperCase) \cup Digits \cup {"_"}

\* the shape [A-Za-z0-9_]+(/[A-Za-z0-9_]+)*
WellShaped(str) ==
    LET parts == Split(str, "/")
    IN \A k \in 1..Len(parts) :
          parts[k] # <<>> /\ Range(parts[k]) \subseteq WordChars

\* C10: sanitize_foldername returns for every string, and what it returns
\* is made of non-empty segments of letters, digits and '_' joined by '/',
\* or is Misc.
C10_SanitizerShape ==
    sanPc = "done" => sanitized = Misc \/ WellShaped(sanitized)

\* C11: sanitizing the result of sanitize_foldername again gives the same
\* string: sanitize(sanitize(p)) = sanitize(p) for every input p.
C11_SanitizerIdempotent ==
    sanPc = "done" => sanitize_foldername(sanitized) = sanitized

\* the ino of the entry that was at path p when the tree was scanned
ScanIno(p) == CHOOSE k \in 1..Len(Universe) : Universe[k].path = p

\* path p holds in f the entry it held at scan time
Denotes(f, p) == Exists(f, p) /\ f[p].ino = ScanIno(p)

\* where the entries that were there at scan time are in f
Scanned(f) == {<<q, f[q].ino>> : q \in {q \in DOMAIN f : f[q].ino # 0}}

\* a folder above the next item's recorded path is no longer where the
\* scan found it
AncestorRelocated ==
    \E q \in Prefixes(NextSource) :
        q # Root /\ q # NextSource /\ ~Denotes(fs, q)

\* C12: when a folder above an item was moved earlier in the run, so that
\* the item's recorded path no longer holds the item, move_item for that
\* item reports failed or skipped and no scanned entry changes place.
C12_StaleNeverMovesSilently ==
    [][ ( /\ KnownItem
          /\ AncestorRelocated
          /\ ~Denotes(fs, NextSource) )
        => /\ outcome'.status \in {"failed", "skipped"}
           /\ Scanned(fs') = Scanned(fs) ]_vars

\* the entry a success record for source path s was logged for is at the
\* destination the record names
AtRecorded(f, s) ==
    /\ Exists(f, success_log[s].destination)
    /\ f[success_log[s].destination].ino = success_log[s].ino

\* C13: when the worker ends with "Organization complete.", every entry
\* whose move was logged with status success is at the destination of its
\* latest success record.
C13_ReportedDestinationsStayValid ==
    (pc = "w_finished" /\ status = "Organization complete.")
        => \A s \in DOMAIN success_log : AtRecorded(fs, s)

====
